---------------------------- MODULE Spec2Model ----------------------------
(***************************************************************************)
(* Model of the IBKRService execution bridge documented in                 *)
(* docs/event-loop-integration.md (class IBKRService: __init__, start,     *)
(* start._worker, execute).  Many request handlers call execute(); one     *)
(* dedicated thread per start() call owns the ib connection object, drains *)
(* the task queue and pumps the connection with ib.sleep(0.01).            *)
(*                                                                         *)
(* Work items are numbered in the order execute() pushes them, worker      *)
(* threads in the order start() spawns them.  A submitted operation is a   *)
(* closure that reads a shared counter when it begins and, when it ends,   *)
(* appends its id to a log and either writes counter+1 and returns its     *)
(* value or raises its exception.                                          *)
(*                                                                         *)
(* The second half models the browser side that consumes the broadcast     *)
(* layer: the singleton WebSocketClient of frontend/src/lib/websocket.ts   *)
(* and the useWebSocket hook instances (useSpyPrice, useFxRate) of         *)
(* frontend/src/hooks/useWebSocket.ts.  Both halves run in different       *)
(* processes and share no state: each has its own next-state relation,     *)
(* which leaves the other half's variables alone.                          *)
(***************************************************************************)
EXTENDS Naturals, Sequences, FiniteSets, Bags

\* Number of execute() calls explored.
MaxOps == 2

\* Number of start() calls explored.
MaxStarts == 2

Ops == 1..MaxOps

Workers == 1..MaxStarts

VARIABLES
    _running,       \* IBKRService._running
    _connected,     \* IBKRService._connected
    _task_queue,    \* IBKRService._task_queue: sequence of work items
    pc,             \* position of each worker thread in _worker
    cur,            \* the work item a worker holds (func, future), or NoItem
    tmp,            \* the counter value the running operation has read
    connect_done,   \* per start(): number of connect_done.set() calls
    start_ret,      \* per start(): "idle", "waiting" in wait(), or "None"
    joins,          \* number of join() calls made on self._thread
    cell,           \* the Future created by each execute() call
    caller,         \* position of each execute() caller
    received,       \* what future.result(30) gave each caller
    counter,        \* shared counter the operations increment
    log,            \* ids appended by the operations, in order
    outcome,        \* how each operation ended: "none", "ok", "raise"
    deq,            \* per work item: number of times it was dequeued
    run,            \* per work item: number of finished calls of its func
    settled         \* per Future: number of successful settlements

\* The state of the IBKRService bridge.
bridgeVars == <<_running, _connected, _task_queue, pc, cur, tmp, connect_done,
                cell, caller, received, counter, log, outcome,
                deq, run, settled, start_ret, joins>>

\* Number of WebSocket objects that exist at once and are not yet CLOSED,
\* pending reconnect timers included (each timer becomes at most one socket).
MaxSockets == 2

\* Number of distinct callback functions handed to on().
MaxCallbacks == 2

Sockets == 1..MaxSockets

Callbacks == 1..MaxCallbacks

\* The hook instances a page mounts: useSpyPrice is useWebSocket(['spy']),
\* useFxRate is useWebSocket(['fx']); a hook is named by its channel.
Hooks == {"spy", "fx"}

\* Message types of the messages handleMessage dispatches.
MsgTypes == {"spy_price", "fx_rate"}

\* event.code of a close event.
CloseCodes == {1000, 1005, 1006}

VARIABLES
    ws,                     \* WebSocketClient.ws: a socket, or 0 for null
    readyState,             \* per socket: "NONE" (no such object), "CONNECTING",
                            \* "OPEN", "CLOSING", "CLOSED" (close event delivered
                            \* and this.ws still refers to the object)
    promise,                \* per socket: the Promise of the connect() call that
                            \* created it: "pending", "resolved", "rejected"
    reconnectAttempts,      \* WebSocketClient.reconnectAttempts
    isIntentionallyClosed,  \* WebSocketClient.isIntentionallyClosed
    timers,                 \* bag of the delays of the pending reconnect timers
    sent,                   \* per socket: channels of the subscribe messages sent
                            \* on the connection while it lasts
    hookpc,                 \* per hook: "unmounted", "awaiting" (in await
                            \* client.connect()), "timer" (100 ms subscribe timer
                            \* pending), "idle", "hung" (awaits a promise that
                            \* no handler can settle any more)
    awaiting,               \* per hook: the socket whose promise it awaits, or 0
    isConnected,            \* per hook: the isConnected state of useWebSocket
    callbacks,              \* WebSocketClient.callbacks: per type, the Set of
                            \* callbacks in insertion order
    invoked,                \* per callback: calls made by the last handleMessage
    thrown,                 \* callbacks that threw in the last handleMessage
    lastType                \* type of the last message handled, or "none"

\* The connection state of the WebSocketClient and its sockets.
clientVars == <<ws, readyState, promise, reconnectAttempts,
                isIntentionallyClosed, timers, sent>>

\* The state of the useWebSocket hook instances.
hookVars == <<hookpc, awaiting, isConnected>>

\* The callback registry and what the last dispatch did.
callbackVars == <<callbacks, invoked, thrown, lastType>>

wsVars == <<clientVars, hookVars, callbackVars>>

vars == <<bridgeVars, wsVars>>

\* What the callers of start() and stop() see and do.
lifeVars == <<start_ret, joins>>

workerVars == <<pc, cur, tmp>>

histVars == <<outcome, deq, run, settled>>

\* A Future that has not been settled.
Pending == [state |-> "Pending", of |-> 0]

\* future.set_result(result) with the value returned by operation i.
Fulfilled(i) == [state |-> "Fulfilled", of |-> i]

\* future.set_exception(e) with the exception raised by operation i.
Rejected(i) == [state |-> "Rejected", of |-> i]

\* The worker holds no work item.
NoItem == [func |-> 0, future |-> 0]

\* The tuple execute() pushes: the i-th call pairs its func with the Future it
\* has just created (args and kwargs travel with func).
WorkItem_SharedFuture(i) == [func |-> i, future |-> 1]

WorkItem(i) == [func |-> i, future |-> i]

\* Threads spawned so far; the next start() spawns worker Spawned + 1.
Spawned == Cardinality({w \in Workers : pc[w] # "unborn"})

\* execute() calls made so far.
Submitted == Cardinality({i \in Ops : caller[i] # "idle"})

Init ==
    /\ _running = FALSE
    /\ _connected = FALSE
    /\ _task_queue = <<>>
    /\ pc = [w \in Workers |-> "unborn"]
    /\ cur = [w \in Workers |-> NoItem]
    /\ tmp = [w \in Workers |-> 0]
    /\ connect_done = [w \in Workers |-> 0]
    /\ start_ret = [w \in Workers |-> "idle"]
    /\ joins = 0
    /\ cell = [i \in Ops |-> Pending]
    /\ caller = [i \in Ops |-> "idle"]
    /\ received = [i \in Ops |-> Pending]
    /\ counter = 0
    /\ log = <<>>
    /\ outcome = [i \in Ops |-> "none"]
    /\ deq = [i \in Ops |-> 0]
    /\ run = [i \in Ops |-> 0]
    /\ settled = [i \in Ops |-> 0]
    /\ ws = 0
    /\ readyState = [s \in Sockets |-> "NONE"]
    /\ promise = [s \in Sockets |-> "pending"]
    /\ reconnectAttempts = 0
    /\ isIntentionallyClosed = FALSE
    /\ timers = EmptyBag
    /\ sent = [s \in Sockets |-> {}]
    /\ hookpc = [h \in Hooks |-> "unmounted"]
    /\ awaiting = [h \in Hooks |-> 0]
    /\ isConnected = [h \in Hooks |-> FALSE]
    /\ callbacks = [t \in MsgTypes |-> <<>>]
    /\ invoked = [c \in Callbacks |-> 0]
    /\ thrown = {}
    /\ lastType = "none"


\* start(): sets the running flag, spawns a new worker thread, which begins
\* with the connect call, stores the new Thread object (never joined so far)
\* in self._thread and waits in connect_done.wait(timeout=30).
Start ==
    /\ Spawned < MaxStarts
    /\ _running' = TRUE
    /\ pc' = [pc EXCEPT ![Spawned + 1] = "connect"]
    /\ start_ret' = [start_ret EXCEPT ![Spawned + 1] = "waiting"]
    /\ joins' = 0
    /\ UNCHANGED <<_connected, _task_queue, cur, tmp, connect_done,
                   cell, caller, received, counter, log,
                   histVars>>
    /\ UNCHANGED wsVars

\* connect_done.wait(timeout=30) times out while connect is still in
\* progress: the value of wait() is dropped and start() returns None.
StartTimeout(w) ==
    /\ start_ret[w] = "waiting"
    /\ connect_done[w] = 0
    /\ start_ret' = [start_ret EXCEPT ![w] = "None"]
    /\ UNCHANGED <<_running, _connected, _task_queue, workerVars,
                   connect_done, cell, caller, received, counter, log,
                   histVars, joins>>
    /\ UNCHANGED wsVars

\* stop(): while the running flag is set, clears it and joins the current
\* worker thread with a bounded wait; a stop() on a bridge that is not
\* running does nothing.
Stop_AlwaysJoin ==
    /\ _running' = FALSE
    /\ joins' = joins + 1
    /\ UNCHANGED <<_connected, _task_queue, workerVars, connect_done,
                   cell, caller, received, counter, log,
                   histVars, start_ret>>
    /\ UNCHANGED wsVars

Stop ==
    /\ _running' = FALSE
    /\ joins' = IF _running THEN joins + 1 ELSE joins
    /\ UNCHANGED <<_connected, _task_queue, workerVars, connect_done,
                   cell, caller, received, counter, log,
                   histVars, start_ret>>
    /\ UNCHANGED wsVars

\* self.ib.connect(...) returns: _connected is set, then connect_done.set(),
\* which ends the wait() of the start() call if it is still waiting; start()
\* returns None.
ConnectOk(w) ==
    /\ pc[w] = "connect"
    /\ _connected' = TRUE
    /\ connect_done' = [connect_done EXCEPT ![w] = @ + 1]
    /\ pc' = [pc EXCEPT ![w] = "loop"]
    /\ start_ret' = [start_ret EXCEPT ![w] = "None"]
    /\ UNCHANGED joins
    /\ UNCHANGED <<_running, _task_queue, cur, tmp, cell,
                   caller, received, counter, log, histVars>>
    /\ UNCHANGED wsVars

\* self.ib.connect(...) raises: the exception is appended to the list
\* connect_error, local to this start() call and read by nothing, then
\* connect_done.set().
ConnectFail_NoSignal(w) ==
    /\ pc[w] = "connect"
    /\ pc' = [pc EXCEPT ![w] = "loop"]
    /\ UNCHANGED lifeVars
    /\ UNCHANGED <<_running, _connected, _task_queue, cur, tmp, connect_done,
                   cell, caller, received, counter, log, histVars>>
    /\ UNCHANGED wsVars

ConnectFail(w) ==
    /\ pc[w] = "connect"
    /\ connect_done' = [connect_done EXCEPT ![w] = @ + 1]
    /\ pc' = [pc EXCEPT ![w] = "loop"]
    /\ start_ret' = [start_ret EXCEPT ![w] = "None"]
    /\ UNCHANGED joins
    /\ UNCHANGED <<_running, _connected, _task_queue, cur, tmp, cell,
                   caller, received, counter, log, histVars>>
    /\ UNCHANGED wsVars

\* while self._running: the loop test.
LoopTest(w) ==
    /\ pc[w] = "loop"
    /\ pc' = [pc EXCEPT ![w] = IF _running THEN "get" ELSE "exited"]
    /\ UNCHANGED lifeVars
    /\ UNCHANGED <<_running, _connected, _task_queue, cur, tmp, connect_done,
                   cell, caller, received, counter, log,
                   histVars>>
    /\ UNCHANGED wsVars

\* self._task_queue.get(timeout=0.1) returns the head item and func is called:
\* the operation begins by reading the counter.
Dequeue_Peek(w) ==
    /\ pc[w] = "get"
    /\ _task_queue # <<>>
    /\ cur' = [cur EXCEPT ![w] = Head(_task_queue)]
    /\ tmp' = [tmp EXCEPT ![w] = counter]
    /\ deq' = [deq EXCEPT ![Head(_task_queue).func] = @ + 1]
    /\ pc' = [pc EXCEPT ![w] = "exec"]
    /\ UNCHANGED lifeVars
    /\ UNCHANGED <<_running, _connected, _task_queue, connect_done,
                   cell, caller, received, counter, log,
                   outcome, run, settled>>
    /\ UNCHANGED wsVars

Dequeue(w) ==
    /\ pc[w] = "get"
    /\ _task_queue # <<>>
    /\ _task_queue' = Tail(_task_queue)
    /\ cur' = [cur EXCEPT ![w] = Head(_task_queue)]
    /\ tmp' = [tmp EXCEPT ![w] = counter]
    /\ deq' = [deq EXCEPT ![Head(_task_queue).func] = @ + 1]
    /\ pc' = [pc EXCEPT ![w] = "exec"]
    /\ UNCHANGED lifeVars
    /\ UNCHANGED <<_running, _connected, connect_done, cell,
                   caller, received, counter, log, outcome, run, settled>>
    /\ UNCHANGED wsVars

\* concurrent.futures.Future.set_result / set_exception on the item's future:
\* a Pending future takes the outcome and the worker goes back to the loop
\* test; on a future that is already settled both calls raise
\* InvalidStateError, which "except Exception" turns into a second failing
\* set_exception, and that one leaves _worker.
Settle(w, value) ==
    LET f == cur[w].future IN
    IF cell[f].state = "Pending"
    THEN /\ cell' = [cell EXCEPT ![f] = value]
         /\ settled' = [settled EXCEPT ![f] = @ + 1]
         /\ pc' = [pc EXCEPT ![w] = "loop"]
    ELSE /\ pc' = [pc EXCEPT ![w] = "crashed"]
         /\ UNCHANGED lifeVars
    /\ UNCHANGED <<cell, settled>>

\* func returns: the log and counter writes of the operation, then
\* future.set_result(result).
ExecReturn(w) ==
    /\ pc[w] = "exec"
    /\ counter' = tmp[w] + 1
    /\ log' = Append(log, cur[w].func)
    /\ outcome' = [outcome EXCEPT ![cur[w].func] = "ok"]
    /\ run' = [run EXCEPT ![cur[w].func] = @ + 1]
    /\ Settle(w, Fulfilled(cur[w].func))
    /\ cur' = [cur EXCEPT ![w] = NoItem]
    /\ tmp' = [tmp EXCEPT ![w] = 0]
    /\ UNCHANGED lifeVars
    /\ UNCHANGED <<_running, _connected, _task_queue, connect_done,
                   caller, received, deq>>
    /\ UNCHANGED wsVars

\* func raises: except Exception as e: future.set_exception(e).
ExecRaise_Uncaught(w) ==
    /\ pc[w] = "exec"
    /\ log' = Append(log, cur[w].func)
    /\ outcome' = [outcome EXCEPT ![cur[w].func] = "raise"]
    /\ run' = [run EXCEPT ![cur[w].func] = @ + 1]
    /\ pc' = [pc EXCEPT ![w] = "crashed"]
    /\ cur' = [cur EXCEPT ![w] = NoItem]
    /\ tmp' = [tmp EXCEPT ![w] = 0]
    /\ UNCHANGED lifeVars
    /\ UNCHANGED <<_running, _connected, _task_queue, connect_done,
                   cell, settled, caller, received, counter,
                   deq>>
    /\ UNCHANGED wsVars

ExecRaise(w) ==
    /\ pc[w] = "exec"
    /\ log' = Append(log, cur[w].func)
    /\ outcome' = [outcome EXCEPT ![cur[w].func] = "raise"]
    /\ run' = [run EXCEPT ![cur[w].func] = @ + 1]
    /\ Settle(w, Rejected(cur[w].func))
    /\ cur' = [cur EXCEPT ![w] = NoItem]
    /\ tmp' = [tmp EXCEPT ![w] = 0]
    /\ UNCHANGED lifeVars
    /\ UNCHANGED <<_running, _connected, _task_queue, connect_done,
                   caller, received, counter, deq>>
    /\ UNCHANGED wsVars

\* get(timeout=0.1) raises queue.Empty: the queue was empty for the whole
\* timeout.  except queue.Empty: if self._connected: self.ib.sleep(0.01).
PopTimeout_NoPump(w) ==
    /\ pc[w] = "get"
    /\ _task_queue = <<>>
    /\ pc' = [pc EXCEPT ![w] = "loop"]
    /\ UNCHANGED lifeVars
    /\ UNCHANGED <<_running, _connected, _task_queue, cur, tmp, connect_done,
                   cell, caller, received, counter, log,
                   histVars>>
    /\ UNCHANGED wsVars

PopTimeout_AlwaysPump(w) ==
    /\ pc[w] = "get"
    /\ _task_queue = <<>>
    /\ pc' = [pc EXCEPT ![w] = "pump"]
    /\ UNCHANGED lifeVars
    /\ UNCHANGED <<_running, _connected, _task_queue, cur, tmp, connect_done,
                   cell, caller, received, counter, log,
                   histVars>>
    /\ UNCHANGED wsVars

PopTimeout(w) ==
    /\ pc[w] = "get"
    /\ _task_queue = <<>>
    /\ pc' = [pc EXCEPT ![w] = IF _connected THEN "pump" ELSE "loop"]
    /\ UNCHANGED lifeVars
    /\ UNCHANGED <<_running, _connected, _task_queue, cur, tmp, connect_done,
                   cell, caller, received, counter, log,
                   histVars>>
    /\ UNCHANGED wsVars

\* self.ib.sleep(0.01) returns.
PumpReturn(w) ==
    /\ pc[w] = "pump"
    /\ pc' = [pc EXCEPT ![w] = "loop"]
    /\ UNCHANGED lifeVars
    /\ UNCHANGED <<_running, _connected, _task_queue, cur, tmp, connect_done,
                   cell, caller, received, counter, log,
                   histVars>>
    /\ UNCHANGED wsVars

\* self.ib.sleep(0.01) raises: the call sits in the except queue.Empty handler
\* with no try around it, so the exception leaves the while loop and _worker.
PumpRaise(w) ==
    /\ pc[w] = "pump"
    /\ pc' = [pc EXCEPT ![w] = "crashed"]
    /\ UNCHANGED lifeVars
    /\ UNCHANGED <<_running, _connected, _task_queue, cur, tmp, connect_done,
                   cell, caller, received, counter, log,
                   histVars>>
    /\ UNCHANGED wsVars

\* execute(): future = Future(); self._task_queue.put((func, args, kwargs,
\* future)); the caller then waits in future.result(30).
Execute_WhenConnected ==
    /\ _connected
    /\ Submitted < MaxOps
    /\ _task_queue' = Append(_task_queue, WorkItem(Submitted + 1))
    /\ caller' = [caller EXCEPT ![Submitted + 1] = "waiting"]
    /\ UNCHANGED lifeVars
    /\ UNCHANGED <<_running, _connected, workerVars, connect_done,
                   cell, received, counter, log, histVars>>
    /\ UNCHANGED wsVars

Execute ==
    /\ Submitted < MaxOps
    /\ _task_queue' = Append(_task_queue, WorkItem(Submitted + 1))
    /\ caller' = [caller EXCEPT ![Submitted + 1] = "waiting"]
    /\ UNCHANGED lifeVars
    /\ UNCHANGED <<_running, _connected, workerVars, connect_done,
                   cell, received, counter, log, histVars>>
    /\ UNCHANGED wsVars

\* future.result(30) returns the value or raises the stored exception.
ResultReturn(i) ==
    /\ caller[i] = "waiting"
    /\ cell[WorkItem(i).future].state # "Pending"
    /\ caller' = [caller EXCEPT ![i] = "got"]
    /\ received' = [received EXCEPT ![i] = cell[WorkItem(i).future]]
    /\ UNCHANGED lifeVars
    /\ UNCHANGED <<_running, _connected, _task_queue, workerVars,
                   connect_done, cell, counter, log, histVars>>
    /\ UNCHANGED wsVars

\* future.result(30) raises TimeoutError: the future is still Pending when the
\* 30 seconds are over.
ResultTimeout_Cancel(i) ==
    /\ caller[i] = "waiting"
    /\ cell[WorkItem(i).future].state = "Pending"
    /\ caller' = [caller EXCEPT ![i] = "timeout"]
    /\ _task_queue' = SelectSeq(_task_queue, LAMBDA it : it.func # i)
    /\ UNCHANGED lifeVars
    /\ UNCHANGED <<_running, _connected, workerVars,
                   connect_done, cell, received, counter, log,
                   histVars>>
    /\ UNCHANGED wsVars

ResultTimeout(i) ==
    /\ caller[i] = "waiting"
    /\ cell[WorkItem(i).future].state = "Pending"
    /\ caller' = [caller EXCEPT ![i] = "timeout"]
    /\ UNCHANGED lifeVars
    /\ UNCHANGED <<_running, _connected, _task_queue, workerVars,
                   connect_done, cell, received, counter, log,
                   histVars>>
    /\ UNCHANGED wsVars

\* One step of worker thread w.
WorkerStep(w) ==
    \/ ConnectOk(w)
    \/ ConnectFail(w)
    \/ LoopTest(w)
    \/ Dequeue(w)
    \/ ExecReturn(w)
    \/ ExecRaise(w)
    \/ PopTimeout(w)
    \/ PumpReturn(w)
    \/ PumpRaise(w)

Next ==
    \/ Start
    \/ \E w \in Workers : StartTimeout(w)
    \/ Stop
    \/ Execute
    \/ \E w \in Workers : WorkerStep(w)
    \/ \E i \in Ops : ResultReturn(i)
    \/ \E i \in Ops : ResultTimeout(i)

Spec == Init /\ [][Next]_vars

\* The worker threads are scheduled fairly: the connect call returns or
\* raises, every operation and every pump call ends, get() returns or times out.
FairSpec == Spec /\ \A w \in Workers : WF_vars(WorkerStep(w))

-----------------------------------------------------------------------------
(* The WebSocketClient singleton and the useWebSocket hooks *)

\* private maxReconnectAttempts = 5
maxReconnectAttempts == 5

\* private reconnectDelay = 1000
reconnectDelay == 1000

\* WebSocket objects that have not delivered their close event yet.
LiveSockets == {s \in Sockets : readyState[s] \in {"CONNECTING", "OPEN", "CLOSING"}}

\* Sockets and pending reconnect timers: a timer turns into at most one
\* socket and a closing socket into at most one timer, so only a connect()
\* call made by a hook adds to this number.
Tokens == Cardinality(LiveSockets) + BagCardinality(timers)

\* The object new WebSocket(this.url) returns: the first slot that holds no
\* socket, or whose socket has delivered its close event.
FreeSlot ==
    CHOOSE s \in Sockets :
        /\ readyState[s] \in {"NONE", "CLOSED"}
        /\ \A r \in Sockets : readyState[r] \in {"NONE", "CLOSED"} => s <= r

\* readyState once this.ws stops referring to its socket: a socket that has
\* delivered its close event is garbage then, and its slot is empty again.
Dropped(rs) ==
    [s \in Sockets |-> IF s = ws /\ rs[s] = "CLOSED" THEN "NONE" ELSE rs[s]]

\* The promises of the sockets that remain after this.ws stops referring to
\* its socket.
DroppedPromise ==
    [s \in Sockets |->
        IF s = ws /\ readyState[s] = "CLOSED" THEN "pending" ELSE promise[s]]

\* isConnected(): this.ws !== null && this.ws.readyState === WebSocket.OPEN
client_isConnected == ws # 0 /\ readyState[ws] = "OPEN"

\* connect(), the test at its head: the socket is OPEN or CONNECTING, and the
\* call returns Promise.resolve() without doing anything.
connectNoop_OpenOnly == ws # 0 /\ readyState[ws] = "OPEN"

connectNoop == ws # 0 /\ readyState[ws] \in {"OPEN", "CONNECTING"}

\* connect(), the body of the new Promise: this.ws = new WebSocket(this.url)
\* (the url is the fixed, well-formed NEXT_PUBLIC_WS_URL or ws://localhost:8000/ws,
\* so the constructor does not throw), isIntentionallyClosed = false, and the
\* handlers are attached; the promise is pending.
newSocket(s) ==
    /\ ws' = s
    /\ readyState' = [Dropped(readyState) EXCEPT ![s] = "CONNECTING"]
    /\ promise' = [DroppedPromise EXCEPT ![s] = "pending"]
    /\ isIntentionallyClosed' = FALSE
    /\ UNCHANGED sent

\* connect() as the reconnect timer and the hooks call it.
connect ==
    IF connectNoop
    THEN UNCHANGED <<ws, readyState, promise, sent, isIntentionallyClosed>>
    ELSE newSocket(FreeSlot)

\* attemptReconnect(): nothing once reconnectAttempts has reached the maximum;
\* otherwise reconnectAttempts++ and one setTimeout with the delay
\* reconnectDelay * Math.pow(2, reconnectAttempts - 1).
attemptReconnect_NoCap ==
    LET n == reconnectAttempts + 1 IN
    /\ reconnectAttempts' = n
    /\ timers' = timers (+) SetToBag({reconnectDelay * 2^(n - 1)})

attemptReconnect_Linear ==
    IF reconnectAttempts >= maxReconnectAttempts
    THEN UNCHANGED <<reconnectAttempts, timers>>
    ELSE LET n == reconnectAttempts + 1 IN
         /\ reconnectAttempts' = n
         /\ timers' = timers (+) SetToBag({reconnectDelay * n})

attemptReconnect ==
    IF reconnectAttempts >= maxReconnectAttempts
    THEN UNCHANGED <<reconnectAttempts, timers>>
    ELSE LET n == reconnectAttempts + 1 IN
         /\ reconnectAttempts' = n
         /\ timers' = timers (+) SetToBag({reconnectDelay * 2^(n - 1)})

\* disconnect(): isIntentionallyClosed = true; if this.ws: this.ws.close(),
\* which takes a CONNECTING or OPEN socket to CLOSING, and this.ws = null.
\* Pending reconnect timers are left alone.
disconnect ==
    /\ isIntentionallyClosed' = TRUE
    /\ IF ws # 0
       THEN /\ readyState' = [Dropped(readyState) EXCEPT ![ws] =
                                 IF @ \in {"CONNECTING", "OPEN"}
                                 THEN "CLOSING" ELSE @]
            /\ promise' = DroppedPromise
            /\ ws' = 0
       ELSE UNCHANGED <<ws, readyState, promise>>
    /\ UNCHANGED <<reconnectAttempts, timers, sent>>

\* subscribe(channel): the message is sent only if this.ws is OPEN.
subscribe(channel) ==
    IF client_isConnected
    THEN sent' = [sent EXCEPT ![ws] = @ \cup {channel}]
    ELSE UNCHANGED sent

\* The hooks whose await client.connect() waits for the promise of socket s.
Awaiters(s) == {h \in Hooks : hookpc[h] = "awaiting" /\ awaiting[h] = s}

\* ws.onopen of socket s: reconnectAttempts = 0 and resolve().  Every hook
\* awaiting the promise resumes in a microtask, before any other event:
\* setIsConnected(true), setError(null) and the 100 ms subscribe timer.
SocketOpen(s) ==
    /\ readyState[s] = "CONNECTING"
    /\ readyState' = [readyState EXCEPT ![s] = "OPEN"]
    /\ reconnectAttempts' = 0
    /\ promise' = [promise EXCEPT ![s] = "resolved"]
    /\ hookpc' = [h \in Hooks |-> IF h \in Awaiters(s) THEN "timer" ELSE hookpc[h]]
    /\ isConnected' = [h \in Hooks |-> IF h \in Awaiters(s) THEN TRUE ELSE isConnected[h]]
    /\ awaiting' = [h \in Hooks |-> IF h \in Awaiters(s) THEN 0 ELSE awaiting[h]]
    /\ UNCHANGED <<ws, isIntentionallyClosed, timers, sent, callbackVars>>
    /\ UNCHANGED bridgeVars

\* ws.onclose of socket s with event.code = code: the server closed or failed
\* the connection, or the close() of disconnect() has completed.  A code
\* other than 1000 and 1005 calls reject(), which settles the promise if it
\* is still pending, and the hooks awaiting it run their catch branch
\* (setError, setIsConnected(false)); with 1000 or 1005 nothing settles the
\* promise, now or later.  Then, unless isIntentionallyClosed,
\* attemptReconnect().  The connection's subscriptions end with it, and a
\* closed socket that this.ws does not refer to is garbage.
SocketClose(s, code) ==
    LET rejects == code \notin {1000, 1005} IN
    /\ readyState[s] \in {"CONNECTING", "OPEN", "CLOSING"}
    /\ readyState' = [readyState EXCEPT ![s] =
                         IF s = ws THEN "CLOSED" ELSE "NONE"]
    /\ promise' = [promise EXCEPT ![s] =
                      IF s # ws THEN "pending"
                      ELSE IF rejects /\ @ = "pending" THEN "rejected" ELSE @]
    /\ sent' = [sent EXCEPT ![s] = {}]
    /\ hookpc' = [h \in Hooks |->
                     IF h \in Awaiters(s)
                     THEN (IF rejects THEN "idle" ELSE "hung")
                     ELSE hookpc[h]]
    /\ isConnected' = [h \in Hooks |->
                          IF h \in Awaiters(s) /\ rejects
                          THEN FALSE ELSE isConnected[h]]
    /\ awaiting' = [h \in Hooks |-> IF h \in Awaiters(s) THEN 0 ELSE awaiting[h]]
    /\ IF ~isIntentionallyClosed
       THEN attemptReconnect
       ELSE UNCHANGED <<reconnectAttempts, timers>>
    /\ UNCHANGED <<ws, isIntentionallyClosed, callbackVars>>
    /\ UNCHANGED bridgeVars

\* A reconnect timer set by attemptReconnect fires:
\* this.connect().catch(...), whose promise nobody else holds.
TimerFire(d) ==
    /\ BagIn(d, timers)
    /\ timers' = timers (-) SetToBag({d})
    /\ connect
    /\ UNCHANGED <<reconnectAttempts, hookVars, callbackVars>>
    /\ UNCHANGED bridgeVars

\* The connect callback of hook h, run by its mount effect or called by the
\* component later.  If the client is connected it does nothing, and on
\* mount the channels effect sends the subscribe message at once.  If the
\* socket is CONNECTING, client.connect() returns a resolved promise: the
\* hook sets isConnected and its 100 ms subscribe timer.  Otherwise
\* client.connect() creates a socket and the hook awaits its promise (the
\* model explores this while fewer than MaxSockets sockets and timers exist).
HookConnect(h) ==
    /\ hookpc[h] \in {"unmounted", "idle"}
    /\ IF client_isConnected
       THEN /\ IF hookpc[h] = "unmounted"
               THEN subscribe(h)
               ELSE UNCHANGED sent
            /\ hookpc' = [hookpc EXCEPT ![h] = "idle"]
            /\ UNCHANGED <<ws, readyState, promise, isIntentionallyClosed,
                           awaiting, isConnected>>
       ELSE IF connectNoop
       THEN /\ connect
            /\ hookpc' = [hookpc EXCEPT ![h] = "timer"]
            /\ isConnected' = [isConnected EXCEPT ![h] = TRUE]
            /\ UNCHANGED awaiting
       ELSE /\ Tokens < MaxSockets
            /\ connect
            /\ hookpc' = [hookpc EXCEPT ![h] = "awaiting"]
            /\ awaiting' = [awaiting EXCEPT ![h] = FreeSlot]
            /\ UNCHANGED isConnected
    /\ UNCHANGED <<reconnectAttempts, timers, callbackVars>>
    /\ UNCHANGED bridgeVars

\* The 100 ms timer of hook h fires: client.subscribe(channel) for its channel.
SubscribeTimer(h) ==
    /\ hookpc[h] = "timer"
    /\ subscribe(h)
    /\ hookpc' = [hookpc EXCEPT ![h] = "idle"]
    /\ UNCHANGED <<ws, readyState, promise, reconnectAttempts,
                   isIntentionallyClosed, timers, awaiting, isConnected,
                   callbackVars>>
    /\ UNCHANGED bridgeVars

\* The disconnect callback of hook h: client.disconnect() and
\* setIsConnected(false).
HookDisconnect(h) ==
    /\ hookpc[h] # "unmounted"
    /\ disconnect
    /\ isConnected' = [isConnected EXCEPT ![h] = FALSE]
    /\ UNCHANGED <<hookpc, awaiting, callbackVars>>
    /\ UNCHANGED bridgeVars

\* The callbacks registered for type t, as a set.
Registered(t) == {callbacks[t][k] : k \in DOMAIN callbacks[t]}

\* on(type, callback): Set.add, which keeps one entry per callback.
on(t, c) ==
    /\ callbacks' = [callbacks EXCEPT ![t] =
                        IF c \in Registered(t) THEN @ ELSE Append(@, c)]
    /\ UNCHANGED <<clientVars, hookVars, invoked, thrown, lastType>>
    /\ UNCHANGED bridgeVars

\* off(type, callback): Set.delete.
off(t, c) ==
    /\ callbacks' = [callbacks EXCEPT ![t] = SelectSeq(@, LAMBDA x : x # c)]
    /\ UNCHANGED <<clientVars, hookVars, invoked, thrown, lastType>>
    /\ UNCHANGED bridgeVars

\* Calls made to callback c by a forEach over the sequence cbs that an
\* exception of a callback in T ends.
CallsUntilThrow(cbs, T, c) ==
    Cardinality({k \in DOMAIN cbs :
                    cbs[k] = c /\ \A j \in 1..(k - 1) : cbs[j] \notin T})

\* handleMessage(message) for a message of type t, T being the callbacks that
\* throw on it: forEach over the Set of the type, each call in its own
\* try/catch.
handleMessage_NoCatch(t, T) ==
    /\ invoked' = [c \in Callbacks |-> CallsUntilThrow(callbacks[t], T, c)]
    /\ thrown' = {c \in T : CallsUntilThrow(callbacks[t], T, c) > 0}
    /\ lastType' = t

handleMessage(t, T) ==
    /\ invoked' = [c \in Callbacks |->
                      Cardinality({k \in DOMAIN callbacks[t] : callbacks[t][k] = c})]
    /\ thrown' = T \cap Registered(t)
    /\ lastType' = t

\* ws.onmessage of an OPEN socket with a message that parses and has type t
\* (a message that does not parse is logged and dropped).
SocketMessage(s, t, T) ==
    /\ readyState[s] = "OPEN"
    /\ handleMessage(t, T)
    /\ UNCHANGED <<clientVars, hookVars, callbacks>>
    /\ UNCHANGED bridgeVars

\* The timer delays attemptReconnect can ask for.
Delays == {reconnectDelay * 2^(k - 1) : k \in 1..maxReconnectAttempts}

\* One step of the connection half of the client: a hook calls connect or
\* disconnect, a timer fires, a socket opens or closes.  The callback
\* registry is not read or written by any of these.
WsNext ==
    \/ \E h \in Hooks : HookConnect(h)
    \/ \E h \in Hooks : SubscribeTimer(h)
    \/ \E h \in Hooks : HookDisconnect(h)
    \/ \E s \in Sockets : SocketOpen(s)
    \/ \E s \in Sockets, code \in CloseCodes : SocketClose(s, code)
    \/ \E d \in Delays : TimerFire(d)

WsSpec == Init /\ [][WsNext]_vars

\* One step of the dispatch half of the client: a hook connects and the
\* socket opens, callbacks are registered and removed, and messages arrive on
\* the open socket.  on, off and handleMessage read and write the registry
\* only, so the rest of the connection's life is left out here.
CallbackNext ==
    \/ \E h \in Hooks : HookConnect(h)
    \/ \E s \in Sockets : SocketOpen(s)
    \/ \E t \in MsgTypes, c \in Callbacks : on(t, c)
    \/ \E t \in MsgTypes, c \in Callbacks : off(t, c)
    \/ \E s \in Sockets, t \in MsgTypes, T \in SUBSET Callbacks :
           SocketMessage(s, t, T)

CallbackSpec == Init /\ [][CallbackNext]_vars


-----------------------------------------------------------------------------
(* Properties *)

\* A worker thread that is inside _worker's while loop.
InLoop(w) == pc[w] \in {"loop", "get", "exec", "pump"}

\* A worker thread that exists: spawned and not yet ended.
Alive(w) == pc[w] \in {"connect", "loop", "get", "exec", "pump"}

\* The outcome operation i produced, as a settled Future holds it.
OutcomeOf(i) == IF outcome[i] = "ok" THEN Fulfilled(i) ELSE Rejected(i)

\* C1: at most one activity touches the Connection at any moment (no two
\* operations execute at the same time, no operation overlaps a pump call),
\* and the counter equals the number of increment operations that completed
\* (no lost update).
C1_Claim ==
    /\ Cardinality({w \in Workers : pc[w] \in {"exec", "pump"}}) <= 1
    /\ counter = Cardinality({i \in Ops : outcome[i] = "ok"})

\* C2: work items are executed in the order they were enqueued: the log holds
\* the ids in increasing order, and while an operation executes every item
\* enqueued before it has finished.
C2_Claim ==
    /\ \A p, q \in DOMAIN log : p < q => log[p] < log[q]
    /\ \A w \in Workers :
           pc[w] = "exec" => \A j \in 1..(cur[w].func - 1) : run[j] >= 1

\* C3: every work item is dequeued at most once, executed at most once and
\* its result cell settled at most once; a settled cell never changes.
C3_ExactlyOnce ==
    /\ [](\A i \in Ops : deq[i] <= 1 /\ run[i] <= 1 /\ settled[i] <= 1)
    /\ [][\A i \in Ops : cell[i].state # "Pending" => cell'[i] = cell[i]]_vars

\* C3 witness: one caller timed out, its item was still dequeued, run and
\* settled once, and another caller's item was settled and read.
C3_Witness ==
    \E i, j \in Ops :
        /\ i # j
        /\ caller[i] = "timeout" /\ deq[i] = 1 /\ run[i] = 1 /\ settled[i] = 1
        /\ caller[j] = "got" /\ settled[j] = 1

\* C4: once the running flag stays set, the connect call returns, operations
\* terminate and the worker is scheduled fairly, every submitted work item's
\* result cell is eventually settled.
C4_Claim ==
    (<>[]_running) =>
        \A i \in Ops : (caller[i] # "idle") ~> (cell[i].state # "Pending")

\* C5: a result cell only ever holds the outcome of the operation submitted
\* with it, and a caller that obtains an outcome obtains its own operation's.
C5_OwnOutcome ==
    \A i \in Ops :
        /\ cell[i].state # "Pending" =>
               outcome[i] # "none" /\ cell[i] = OutcomeOf(i)
        /\ caller[i] = "got" =>
               outcome[i] # "none" /\ received[i] = OutcomeOf(i)

\* C5 witness: two submissions in flight at once, finished in the opposite
\* order with different outcomes, each caller holding its own.
C5_Witness ==
    /\ log = <<2, 1>>
    /\ caller[1] = "got" /\ caller[2] = "got"
    /\ received[1].state # received[2].state

\* C6: when an operation raises, its cell is rejected with that exception and
\* the worker is back at its loop test; an operation that does not raise is
\* fulfilled with its own value.
C6_CrashIsolation ==
    /\ [][\A w \in Workers :
            (pc[w] = "exec" /\ pc'[w] # "exec"
               /\ outcome'[cur[w].func] = "raise")
            => (cell'[cur[w].future] = Rejected(cur[w].func)
                  /\ pc'[w] = "loop")]_vars
    /\ [](\A i \in Ops : outcome[i] = "ok" => cell[i] = Fulfilled(i))

\* C6 witness: the single worker ran a raising operation, rejected its cell,
\* and afterwards ran and fulfilled a healthy one.
C6_Witness ==
    /\ Spawned = 1
    /\ log = <<1, 2>>
    /\ cell[1] = Rejected(1)
    /\ cell[2] = Fulfilled(2)

\* C7: a worker thread leaves its main loop only because the running flag was
\* cleared, never because of an exception (a pump failure is swallowed).
C7_Claim == \A w \in Workers : pc[w] # "crashed"

\* The bridge is idle: running, Connected, channel empty, a worker in its loop.
Idle ==
    /\ _running
    /\ _connected
    /\ _task_queue = <<>>
    /\ \E w \in Workers : InLoop(w)

\* A worker calls the pump routine.
PumpCall == \E w \in Workers : pc[w] # "pump" /\ pc'[w] = "pump"

\* C8: while Connected, every pop timeout is followed by a pump call, and
\* if the bridge stays idle the pump is called infinitely often.
C8_PumpLiveness ==
    /\ [][\A w \in Workers :
            (pc[w] = "get" /\ pc'[w] # "get" /\ _task_queue = <<>>
               /\ _connected)
            => pc'[w] = "pump"]_vars
    /\ (<>[]Idle => []<><<PumpCall>>_vars)

\* C8 witness: every submitted operation has run, the channel is empty and
\* the running, Connected worker is in a pump call.
C8_Witness ==
    /\ Idle
    /\ \A i \in Ops : run[i] = 1
    /\ \E w \in Workers : pc[w] = "pump"

C10_Claim == Cardinality({w \in Workers : Alive(w)}) <= 1


\* C11: for each worker start the readiness event is set exactly once: not
\* before the connect call has returned or raised, and always before the
\* worker is in its main loop, whatever the outcome of connect.
C11_ReadyOnce ==
    \A w \in Workers :
        /\ connect_done[w] <= 1
        /\ pc[w] \in {"unborn", "connect"} => connect_done[w] = 0
        /\ pc[w] \notin {"unborn", "connect"} => connect_done[w] = 1

\* C11 witness: a worker whose connect call raised (nothing is Connected) is
\* at its pop, its readiness event set once.
C11_Witness ==
    \E w \in Workers :
        ~_connected /\ pc[w] = "get" /\ connect_done[w] = 1


\* The connection state the service reports: the _connected flag.
Lifecycle == IF _connected THEN "Connected" ELSE "Disconnected"

\* C12: a connect call that raises leaves the worker at its loop test and the
\* lifecycle state Failed; a connect call that returns leaves it Connected.
C12_Claim ==
    [][\A w \in Workers :
         /\ ConnectFail(w) => (pc'[w] = "loop" /\ Lifecycle' = "Failed")
         /\ ConnectOk(w) => Lifecycle' = "Connected"]_vars

\* C13: a start() call that stops waiting before its readiness event is set
\* returns a Timeout failure, and its worker thread stays in the connect call.
C13_Claim ==
    [][\A w \in Workers :
         (start_ret[w] = "waiting" /\ start_ret'[w] # "waiting"
            /\ connect_done'[w] = 0)
         => (start_ret'[w] = "Timeout" /\ pc'[w] = "connect")]_vars

\* C14: a work item dequeued while the connection is not up is not executed:
\* its cell is rejected and the worker goes on with its loop.
C14_Claim ==
    [][\A w \in Workers :
         (pc[w] = "get" /\ pc'[w] # "get" /\ _task_queue # <<>>
            /\ ~_connected)
         => (pc'[w] = "loop"
               /\ cell'[Head(_task_queue).future].state = "Rejected"
               /\ run' = run)]_vars

\* The channel hands the items out in the order they were pushed.
FifoDequeue ==
    \A i \in Ops : deq[i] >= 1 => \A j \in 1..(i - 1) : deq[j] >= 1

\* C15: a caller's timeout changes that caller's position and nothing else;
\* the item of a timed-out caller, once run, is dequeued and settled exactly
\* once with its own outcome; items still leave the channel in FIFO order.
C15_TimeoutIsolation ==
    /\ [][\A i \in Ops :
            (caller[i] = "waiting" /\ caller'[i] = "timeout")
            => (/\ UNCHANGED <<_running, _connected, _task_queue, pc, cur,
                               tmp, cell, received, counter, log, outcome,
                               deq, run, settled>>
                /\ \A j \in Ops \ {i} : caller'[j] = caller[j])]_vars
    /\ [](\A i \in Ops :
            (caller[i] = "timeout" /\ run[i] >= 1)
            => (deq[i] = 1 /\ run[i] = 1 /\ settled[i] = 1
                  /\ cell[i] = OutcomeOf(i)))
    /\ []FifoDequeue

\* C15 witness: caller 1 timed out, its operation still ran and was settled,
\* and caller 2 then obtained the outcome of its own operation.
C15_Witness ==
    /\ caller[1] = "timeout" /\ settled[1] = 1 /\ cell[1] = OutcomeOf(1)
    /\ log = <<1, 2>>
    /\ caller[2] = "got" /\ received[2] = OutcomeOf(2)

\* A work item pushed and not yet dequeued while a worker is in its handshake.
QueuedInHandshake(i) ==
    /\ \E k \in DOMAIN _task_queue : _task_queue[k].func = i
    /\ \E w \in Workers : pc[w] = "connect"

\* C16: execute() is accepted in every lifecycle state and pushes its item at
\* the tail of the channel; items leave the channel in FIFO order; an item
\* queued during a handshake is settled once the running flag stays set.
C16_SubmitAnytime ==
    /\ [](Submitted < MaxOps => ENABLED Execute)
    /\ [][Submitted' # Submitted =>
            _task_queue' = Append(_task_queue, WorkItem(Submitted + 1))]_vars
    /\ []FifoDequeue
    /\ ((<>[]_running) =>
          \A i \in Ops :
              QueuedInHandshake(i) ~> (cell[i].state # "Pending"))

\* C16 witness: two items pushed while the only worker is still in its
\* connect call wait in the channel in submission order.
C16_Witness ==
    /\ Spawned = 1
    /\ pc[1] = "connect"
    /\ _task_queue = <<WorkItem(1), WorkItem(2)>>

\* C17: a worker that leaves its main loop disconnects and marks the state
\* Disconnected.
C17_Claim ==
    [][\A w \in Workers :
         (pc[w] = "loop" /\ pc'[w] = "exited") => ~_connected']_vars

\* C18: stop joins the worker thread at most once; a stop on a bridge that
\* is not running (a second stop, or a stop before any start) changes
\* nothing and joins nothing.
C18_StopIdempotent ==
    /\ [](joins <= 1)
    /\ [](Spawned = 0 => joins = 0)
    /\ [][(~_running /\ Stop) => UNCHANGED vars]_vars

\* C18 witness: the bridge was started and stopped, its thread joined once,
\* and the worker has left its loop.
C18_Witness ==
    /\ ~_running
    /\ joins = 1
    /\ pc[1] = "exited"

\* C19: once the bridge is stopped (flag cleared, every worker thread ended)
\* the reported state has returned to Disconnected.
C19_Claim ==
    (Spawned > 0 /\ ~_running /\ \A w \in Workers : ~Alive(w))
        => Lifecycle = "Disconnected"

\* A socket's open event is delivered in this step.
OpenStep == \E s \in Sockets : readyState[s] = "CONNECTING" /\ readyState'[s] = "OPEN"

\* This step sets a reconnect timer.
TimerSet == \E d \in BagToSet(timers') : CopiesIn(d, timers') > CopiesIn(d, timers)

\* C21: reconnectAttempts stays between 0 and maxReconnectAttempts (5); it
\* goes down only to 0 and only in a step in which a socket opens; and while
\* it is 5 no step (no close event in particular) sets a reconnect timer.
C21_ReconnectCap ==
    /\ [](reconnectAttempts \in 0..maxReconnectAttempts)
    /\ [][reconnectAttempts' < reconnectAttempts =>
            (reconnectAttempts' = 0 /\ OpenStep)]_vars
    /\ [][reconnectAttempts = maxReconnectAttempts => ~TimerSet]_vars

\* C21 witness: the socket this.ws refers to was closed, not intentionally,
\* with five attempts made and no open since, and no timer is pending: the
\* close event set none.
C21_Witness ==
    /\ reconnectAttempts = maxReconnectAttempts
    /\ timers = EmptyBag
    /\ ws # 0
    /\ readyState[ws] = "CLOSED"
    /\ ~isIntentionallyClosed

\* The close event of socket s is delivered in this step.
CloseStep(s) ==
    /\ readyState[s] \in {"CONNECTING", "OPEN", "CLOSING"}
    /\ readyState'[s] \in {"CLOSED", "NONE"}

\* The delays of the first to the fifth attempt, in milliseconds.
BackoffTable == <<1000, 2000, 4000, 8000, 16000>>

\* C22: a close event delivered while isIntentionallyClosed is false and fewer
\* than five attempts were made since the last open makes the next attempt k
\* and sets exactly one timer, with the delay reconnectDelay * 2^(k-1), that
\* is 1000, 2000, 4000, 8000, 16000 ms for k = 1..5; no other step sets a
\* timer.
C22_Backoff ==
    /\ [][\A s \in Sockets :
            (CloseStep(s) /\ ~isIntentionallyClosed
               /\ reconnectAttempts < maxReconnectAttempts)
            => (/\ reconnectAttempts' = reconnectAttempts + 1
                /\ timers' = timers (+) SetToBag({BackoffTable[reconnectAttempts']})
                /\ BackoffTable[reconnectAttempts']
                     = reconnectDelay * 2^(reconnectAttempts' - 1))]_vars
    /\ [][TimerSet =>
            (~isIntentionallyClosed /\ \E s \in Sockets : CloseStep(s))]_vars

\* C22 witness: the fifth attempt in a row has been scheduled and its timer,
\* of 16000 ms, is the one pending.
C22_Witness ==
    /\ reconnectAttempts = 5
    /\ timers = SetToBag({16000})

\* connect() creates a WebSocket in this step.
SocketCreated ==
    \E s \in Sockets : readyState[s] # "CONNECTING" /\ readyState'[s] = "CONNECTING"

\* C23: after disconnect() has returned and until the next explicit connect()
\* call (isIntentionallyClosed is true in between), a socket is created only
\* by a connect() call of a hook, never by a reconnect timer that fires.
C23_Claim ==
    [][(isIntentionallyClosed /\ SocketCreated) => UNCHANGED timers]_vars

\* C24: the isConnected value of a hook is true only while the client's
\* socket is OPEN; hence once the socket is closed by the server, or fails,
\* isConnected is false.
C24_Claim == \A h \in Hooks : isConnected[h] => client_isConnected

\* C25: once both hooks have connected (isConnected set) and their 100 ms
\* subscribe timers have fired, an open socket has been sent the subscribe
\* message of both channels.
C25_Claim ==
    ((\A h \in Hooks : hookpc[h] = "idle" /\ isConnected[h]) /\ client_isConnected)
        => Hooks \subseteq sent[ws]

\* The client's socket is OPEN or CONNECTING.
Busy == ws # 0 /\ readyState[ws] \in {"OPEN", "CONNECTING"}

\* A connect() call returns in this step, made by a reconnect timer that
\* fires or by a hook that is handed an already resolved promise.
ConnectCall ==
    \/ \E d \in BagToSet(timers) : CopiesIn(d, timers') < CopiesIn(d, timers)
    \/ \E h \in Hooks : hookpc[h] \in {"unmounted", "idle"} /\ hookpc'[h] = "timer"

\* C26: at most one socket of the client is OPEN or CONNECTING; no socket is
\* created while the client's socket is OPEN or CONNECTING; and a connect()
\* call made then changes nothing of the client.
C26_SingleSocket ==
    /\ [](Cardinality({s \in Sockets : readyState[s] \in {"OPEN", "CONNECTING"}}) <= 1)
    /\ [][Busy => ~SocketCreated]_vars
    /\ [][(Busy /\ ConnectCall) =>
            UNCHANGED <<ws, readyState, promise, reconnectAttempts,
                        isIntentionallyClosed, sent>>]_vars

\* C26 witness: with the socket of an earlier connection still CLOSING, one
\* hook has created a new socket and the other hook's connect() call found it
\* CONNECTING.
C26_Witness ==
    /\ \E s \in Sockets : readyState[s] = "CLOSING"
    /\ ws # 0
    /\ readyState[ws] = "CONNECTING"
    /\ \E h, g \in Hooks : hookpc[h] = "awaiting" /\ awaiting[h] = ws /\ hookpc[g] = "timer"

\* handleMessage runs in this step: the registry stays and the record of the
\* last dispatch changes.
DispatchStep ==
    /\ callbacks' = callbacks
    /\ <<invoked, thrown, lastType>>' # <<invoked, thrown, lastType>>

\* C27: a dispatch of a message of type T calls every callback registered for
\* T exactly once, whichever of them throw, and calls no other callback; a
\* callback registered twice for a type is registered once.
C27_Dispatch ==
    /\ [][DispatchStep =>
            invoked' = [c \in Callbacks |->
                           IF c \in Registered(lastType') THEN 1 ELSE 0]]_vars
    /\ [](\A t \in MsgTypes : Cardinality(Registered(t)) = Len(callbacks[t]))

\* C27 witness: of the two callbacks registered for spy_price, the second one
\* for fx_rate too, the first one threw on a spy_price message and both were
\* called once.
C27_Witness ==
    /\ lastType = "spy_price"
    /\ callbacks["spy_price"] = <<1, 2>>
    /\ callbacks["fx_rate"] = <<2>>
    /\ thrown = {1}
    /\ invoked = [c \in Callbacks |-> 1]

\* C28: the promise of a connect() call is settled once its socket has opened
\* or has delivered its close event, whatever the close code, so that no hook
\* is left awaiting a promise of a closed socket.  (resolve and reject are
\* called by the socket's own onopen and onclose only, each of which runs at
\* most once: a promise they leave pending stays pending.)
C28_Claim ==
    /\ \A s \in Sockets : readyState[s] \in {"OPEN", "CLOSED"} => promise[s] # "pending"
    /\ \A h \in Hooks : hookpc[h] # "hung"

\* C29: for as long as a worker's connect call is in progress no work item is
\* taken from the channel (so none is executed, and the callers' awaits can
\* end only by their own timeout).
C29_Claim ==
    [][(\E w \in Workers : pc[w] = "connect") => deq' = deq]_vars

\* C30: once a worker has left its main loop on the cleared running flag, no
\* work item is taken from the channel any more: the items in it and the
\* items pushed later keep their cells Pending.
C30_Claim ==
    [][(\E w \in Workers : pc[w] = "exited") => deq' = deq]_vars

=============================================================================
